---- MODULE Spec2Model ----
(***************************************************************************)
(* A model of the personal-assistant chatbot: the conversation log         *)
(* (memory.py), the profile store (profiles.py) and the chat request flow  *)
(* (api_server.py, chatbot.py).                                            *)
(*                                                                         *)
(* Texts are sequences of one-character strings, so that lower-casing,     *)
(* stripping, splitting and substring search are computed as Python        *)
(* computes them.  A persisted file is a record: what kind of document it  *)
(* holds and, for a JSON list, its items.                                  *)
(***************************************************************************)
EXTENDS Integers, Sequences, FiniteSets, TLC

VARIABLES
    histFile,   \* conversation_history.json
    profFile,   \* user_profile.json
    now,        \* the clock datetime.now() reads
    pc,         \* pc[p]: where caller p stands
    loc,        \* loc[p]: the locals of caller p
    out         \* the last completed call: its name, arguments and result

vars == <<histFile, profFile, now, pc, loc, out>>

-----------------------------------------------------------------------------
(* Python strings *)

\* str.lower on one character
ToLower(c) ==
    CASE c = "A" -> "a" [] c = "B" -> "b" [] c = "C" -> "c" [] c = "D" -> "d" [] 
         c = "E" -> "e" [] c = "F" -> "f" [] c = "G" -> "g" [] c = "H" -> "h" [] 
         c = "I" -> "i" [] c = "J" -> "j" [] c = "K" -> "k" [] c = "L" -> "l" [] 
         c = "M" -> "m" [] c = "N" -> "n" [] c = "O" -> "o" [] c = "P" -> "p" [] 
         c = "Q" -> "q" [] c = "R" -> "r" [] c = "S" -> "s" [] c = "T" -> "t" [] 
         c = "U" -> "u" [] c = "V" -> "v" [] c = "W" -> "w" [] c = "X" -> "x" [] 
         c = "Y" -> "y" [] c = "Z" -> "z" [] OTHER -> c

\* str.lower
Lower(s) == [i \in 1..Len(s) |-> ToLower(s[i])]

\* \s of the regular expression, and what str.split and str.strip cut at
IsSpace(c) == c \in {" ", "\t", "\n"}

\* \w of the regular expression: letters, digits and the underscore
IsWordChar(c) ==
    c \in {"a","b","c","d","e","f","g","h","i","j","k","l","m","n","o","p","q","r",
           "s","t","u","v","w","x","y","z","A","B","C","D","E","F","G","H","I","J",
           "K","L","M","N","O","P","Q","R","S","T","U","V","W","X","Y","Z",
           "0","1","2","3","4","5","6","7","8","9","_"}

\* re.sub(r'[^\w\s]', '', s)
StripPunct(s) == SelectSeq(s, LAMBDA c : IsWordChar(c) \/ IsSpace(c))

\* str.strip
RECURSIVE LStrip(_)
LStrip(s) == IF s # <<>> /\ IsSpace(Head(s)) THEN LStrip(Tail(s)) ELSE s

RECURSIVE RStrip(_)
RStrip(s) ==
    IF s # <<>> /\ IsSpace(s[Len(s)]) THEN RStrip(SubSeq(s, 1, Len(s) - 1)) ELSE s

Strip(s) == RStrip(LStrip(s))

\* str.split with no argument: the maximal runs of non-space characters
RECURSIVE SplitFrom(_, _)
SplitFrom(s, cur) ==
    IF s = <<>>
    THEN IF cur = <<>> THEN <<>> ELSE <<cur>>
    ELSE IF IsSpace(Head(s))
         THEN (IF cur = <<>> THEN <<>> ELSE <<cur>>) \o SplitFrom(Tail(s), <<>>)
         ELSE SplitFrom(Tail(s), Append(cur, Head(s)))

Split(s) == SplitFrom(s, <<>>)

\* w in s
Contains(s, w) ==
    \E i \in 0..(Len(s) - Len(w)) : SubSeq(s, i + 1, i + Len(w)) = w

\* str(i) of a natural number
RECURSIVE Decimal(_)
Decimal(i) ==
    LET d == <<"0","1","2","3","4","5","6","7","8","9">>[(i % 10) + 1]
    IN  IF i < 10 THEN <<d>> ELSE Append(Decimal(i \div 10), d)

\* s[-c:] for c >= 0 (s[-0:] is s[0:], the whole sequence)
LastSlice(s, c) ==
    IF c = 0 \/ c >= Len(s) THEN s ELSE SubSeq(s, Len(s) - c + 1, Len(s))

\* s[:c] for c >= 0
FirstSlice(s, c) == SubSeq(s, 1, IF c < Len(s) THEN c ELSE Len(s))

Min(a, b) == IF a < b THEN a ELSE b
Max(a, b) == IF a > b THEN a ELSE b

-----------------------------------------------------------------------------
(* Persisted documents *)

\* One tick of the clock is one reading of datetime.now(); a calendar day is
\* TicksPerDay ticks.
TicksPerDay == 2

\* strftime("%Y-%m-%d") of an instant
DateOf(t) == t \div TicksPerDay

\* no file on disk
Absent == [kind |-> "absent", items |-> <<>>, fields |-> <<>>]

\* a file json.load cannot decode: empty, cut short, or not JSON at all
Garbage == [kind |-> "garbage", items |-> <<>>, fields |-> <<>>]

\* a JSON document that is neither a list nor an object (a number, a string)
Scalar == [kind |-> "scalar", items |-> <<>>, fields |-> <<>>]

\* a JSON list of the given items
JsonList(items) == [kind |-> "list", items |-> items, fields |-> <<>>]

\* a JSON object with the given members
JsonDict(fields) == [kind |-> "dict", items |-> <<>>, fields |-> fields]

\* None, as a value in memory
PyNone == [kind |-> "none", items |-> <<>>, fields |-> <<>>]

\* json.dump(history): every conversation becomes a JSON object
\* the list is written last record first
DumpHistoryReversed(history) ==
    JsonList([i \in 1..Len(history) |-> JsonDict(history[Len(history) + 1 - i])])

DumpHistory(history) == JsonList([i \in 1..Len(history) |-> JsonDict(history[i])])

-----------------------------------------------------------------------------
(* memory.py *)

\* the cap on the log, memory.py:29
MaxHistory == 100

\* the texts are stored as they were passed
ConversationUnstripped(user_message, bot_response, domain, t) ==
    [user                 |-> user_message,
     assistant            |-> bot_response,
     domain               |-> domain,
     timestamp            |-> t,
     date                 |-> DateOf(t),
     user_word_count      |-> Len(Split(user_message)),
     assistant_word_count |-> Len(Split(bot_response))]

\* the conversation record save_conversation builds at instant t
Conversation(user_message, bot_response, domain, t) ==
    [user                 |-> Strip(user_message),
     assistant            |-> Strip(bot_response),
     domain               |-> domain,
     timestamp            |-> t,
     date                 |-> DateOf(t),
     user_word_count      |-> Len(Split(user_message)),
     assistant_word_count |-> Len(Split(bot_response))]

\* every record loaded gets the time of the load as its timestamp
BackfillStamping(conv, t) ==
    [k \in DOMAIN conv \cup {"timestamp", "date", "domain"} |->
        IF k = "timestamp" THEN t
        ELSE IF k \in DOMAIN conv THEN conv[k]
        ELSE IF k = "date" THEN DateOf(t)
        ELSE "general"]

\* the three fields load_conversation_history fills in when missing
Backfill(conv, t) ==
    [k \in DOMAIN conv \cup {"timestamp", "date", "domain"} |->
        IF k \in DOMAIN conv THEN conv[k]
        ELSE IF k = "timestamp" THEN t
        ELSE IF k = "date" THEN DateOf(t)
        ELSE "general"]

\* an item of the persisted list that load_conversation_history keeps
IsValidEntry(e) ==
    e.kind = "dict" /\ "user" \in DOMAIN e.fields /\ "assistant" \in DOMAIN e.fields

\* the loop ends at the first entry that is not valid
RECURSIVE ValidConversationsUntilInvalid(_, _)
ValidConversationsUntilInvalid(items, t) ==
    IF items = <<>> THEN <<>>
    ELSE IF IsValidEntry(Head(items))
         THEN <<Backfill(Head(items).fields, t)>>
              \o ValidConversationsUntilInvalid(Tail(items), t)
         ELSE <<>>

\* load_conversation_history(): failed is whether opening or reading raised
RECURSIVE ValidConversations(_, _)
ValidConversations(items, t) ==
    IF items = <<>> THEN <<>>
    ELSE (IF IsValidEntry(Head(items)) THEN <<Backfill(Head(items).fields, t)>>
          ELSE <<>>) \o ValidConversations(Tail(items), t)

load_conversation_history(file, failed, t) ==
    IF file.kind = "absent" \/ failed THEN <<>>
    ELSE IF file.kind # "list" THEN <<>>
    ELSE ValidConversations(file.items, t)

\* the cut keeps the first 100 instead of the last
AppendCappedKeepsOldest(history, conversation) ==
    LET h == Append(history, conversation)
    IN  IF Len(h) > MaxHistory THEN FirstSlice(h, MaxHistory) ELSE h

\* the list is not cut
AppendUncapped(history, conversation) == Append(history, conversation)

\* history.append(conversation) and the cut to the last 100
AppendCapped(history, conversation) ==
    LET h == Append(history, conversation)
    IN  IF Len(h) > MaxHistory THEN LastSlice(h, MaxHistory) ELSE h

\* the count is not raised to 1
get_recent_conversations_unclamped(history, count) ==
    IF history = <<>> THEN <<>>
    ELSE LastSlice(history, Max(0, Min(count, Len(history))))

\* get_recent_conversations(count) on the loaded history
get_recent_conversations(history, count) ==
    IF history = <<>> THEN <<>>
    ELSE LastSlice(history, Max(1, Min(count, Len(history))))

\* words of 2 letters are kept
QueryWordsLongerThanOne(query) ==
    SelectSeq(Split(StripPunct(Lower(query))), LAMBDA w : Len(w) > 1)

\* the query words: cleaned, split, and only the words longer than 2
QueryWords(query) ==
    SelectSeq(Split(StripPunct(Lower(query))), LAMBDA w : Len(w) > 2)

\* the cleaned text of a conversation that the query words are searched in
ConvCleaned(conv) == StripPunct(Lower(conv.user \o <<" ">> \o conv.assistant))

\* the places of the text where the word starts
Occurrences(text, word) ==
    Cardinality({k \in 1..(Len(text) - Len(word) + 1) :
                    SubSeq(text, k, k + Len(word) - 1) = word})

\* every occurrence of a word in the text counts
RECURSIVE MatchesPerOccurrence(_, _)
MatchesPerOccurrence(conv, query_words) ==
    IF query_words = <<>> THEN 0
    ELSE Occurrences(ConvCleaned(conv), Head(query_words))
         + MatchesPerOccurrence(conv, Tail(query_words))

\* matches: one per position of query_words whose word occurs in the text
Matches(conv, query_words) ==
    Cardinality({i \in 1..Len(query_words) : Contains(ConvCleaned(conv), query_words[i])})

\* conversations without a match are kept too
RECURSIVE RelevantWithZero(_, _)
RelevantWithZero(history, query_words) ==
    IF history = <<>> THEN <<>>
    ELSE << [conv |-> Head(history),
             score |-> [num |-> Matches(Head(history), query_words),
                        den |-> Len(query_words)]] >>
         \o RelevantWithZero(Tail(history), query_words)

\* the (conversation, score) pairs with at least one match, in log order;
\* a score is kept as the fraction matches / len(query_words)
RECURSIVE Relevant(_, _)
Relevant(history, query_words) ==
    IF history = <<>> THEN <<>>
    ELSE LET m == Matches(Head(history), query_words)
         IN  (IF m > 0
              THEN << [conv |-> Head(history),
                       score |-> [num |-> m, den |-> Len(query_words)]] >>
              ELSE <<>>) \o Relevant(Tail(history), query_words)

\* a.score > b.score
ScoreGreater(a, b) == a.score.num * b.score.den > b.score.num * a.score.den

\* an unstable sort: a pair goes before the pairs of equal score
RECURSIVE InsertByScoreBeforeEqual(_, _)
InsertByScoreBeforeEqual(sorted, x) ==
    IF sorted = <<>> THEN <<x>>
    ELSE IF ~ScoreGreater(Head(sorted), x) THEN <<x>> \o sorted
    ELSE <<Head(sorted)>> \o InsertByScoreBeforeEqual(Tail(sorted), x)

\* list.sort(key=score, reverse=True): stable, equal scores keep their order
RECURSIVE InsertByScore(_, _)
InsertByScore(sorted, x) ==
    IF sorted = <<>> THEN <<x>>
    ELSE IF ScoreGreater(x, Head(sorted)) THEN <<x>> \o sorted
    ELSE <<Head(sorted)>> \o InsertByScore(Tail(sorted), x)

RECURSIVE SortByScore(_)
SortByScore(pairs) ==
    IF pairs = <<>> THEN <<>>
    ELSE InsertByScore(SortByScore(SubSeq(pairs, 1, Len(pairs) - 1)), pairs[Len(pairs)])

\* relevant_conversations after the sort: the (conversation, score) pairs in
\* the order the results are cut from
relevant_conversations(history, query) ==
    IF history = <<>> \/ query = <<>> THEN <<>>
    ELSE IF QueryWords(query) = <<>> THEN <<>>
    ELSE SortByScore(Relevant(history, QueryWords(query)))

\* max_results is not raised to 1
find_relevant_conversations_unclamped(history, query, max_results) ==
    IF history = <<>> \/ query = <<>> THEN <<>>
    ELSE IF QueryWords(query) = <<>> THEN <<>>
    ELSE LET relevant == relevant_conversations(history, query)
             k        == Max(0, Min(max_results, Len(relevant)))
             top      == FirstSlice(relevant, k)
         IN  [i \in 1..Len(top) |-> top[i].conv]

\* find_relevant_conversations(query, max_results) on the loaded history
find_relevant_conversations(history, query, max_results) ==
    IF history = <<>> \/ query = <<>> THEN <<>>
    ELSE IF QueryWords(query) = <<>> THEN <<>>
    ELSE LET relevant == relevant_conversations(history, query)
             k        == Max(1, Min(max_results, Len(relevant)))
             top      == FirstSlice(relevant, k)
         IN  [i \in 1..Len(top) |-> top[i].conv]

Keywords_work ==
    << <<"w","o","r","k">>, <<"j","o","b">>, <<"m","e","e","t","i","n","g">>, 
       <<"d","e","a","d","l","i","n","e">>, <<"p","r","o","j","e","c","t">>, 
       <<"c","a","r","e","e","r">>, <<"o","f","f","i","c","e">>, <<"t","a","s","k">>, 
       <<"p","r","o","d","u","c","t","i","v","i","t","y">>, 
       <<"b","u","s","i","n","e","s","s">>, <<"c","o","l","l","e","a","g","u","e">>, 
       <<"b","o","s","s">>, <<"e","m","p","l","o","y","e","e">>, <<"s","a","l","a","r","y">>, 
       <<"p","r","o","m","o","t","i","o","n">> >>

Keywords_family ==
    << <<"f","a","m","i","l","y">>, <<"k","i","d","s">>, <<"c","h","i","l","d","r","e","n">>, 
       <<"s","p","o","u","s","e">>, <<"p","a","r","e","n","t">>, <<"h","o","m","e">>, 
       <<"d","i","n","n","e","r">>, <<"b","i","r","t","h","d","a","y">>, 
       <<"v","a","c","a","t","i","o","n">>, <<"h","u","s","b","a","n","d">>, 
       <<"w","i","f","e">>, <<"m","o","t","h","e","r">>, <<"f","a","t","h","e","r">>, 
       <<"s","o","n">>, <<"d","a","u","g","h","t","e","r">> >>

Keywords_entertainment ==
    << <<"m","o","v","i","e">>, <<"m","u","s","i","c">>, <<"g","a","m","e">>, 
       <<"b","o","o","k">>, <<"n","e","t","f","l","i","x">>, <<"f","u","n">>, 
       <<"h","o","b","b","y">>, <<"w","a","t","c","h">>, <<"r","e","a","d">>, 
       <<"p","l","a","y">>, <<"e","n","t","e","r","t","a","i","n","m","e","n","t">>, 
       <<"s","h","o","w">>, <<"s","e","r","i","e","s">>, <<"f","i","l","m">> >>

Keywords_health ==
    << <<"h","e","a","l","t","h">>, <<"e","x","e","r","c","i","s","e">>, 
       <<"f","i","t","n","e","s","s">>, <<"d","o","c","t","o","r">>, 
       <<"m","e","d","i","c","a","l">>, <<"d","i","e","t">>, <<"w","o","r","k","o","u","t">>, 
       <<"m","e","d","i","c","i","n","e">>, <<"h","o","s","p","i","t","a","l">>, 
       <<"s","y","m","p","t","o","m","s">>, <<"s","i","c","k">>, 
       <<"w","e","l","l","n","e","s","s">> >>

Keywords_learning ==
    << <<"l","e","a","r","n">>, <<"s","t","u","d","y">>, 
       <<"e","d","u","c","a","t","i","o","n">>, <<"c","o","u","r","s","e">>, 
       <<"s","k","i","l","l">>, <<"t","u","t","o","r","i","a","l">>, 
       <<"h","o","w"," ","t","o">>, <<"t","e","a","c","h">>, <<"s","c","h","o","o","l">>, 
       <<"u","n","i","v","e","r","s","i","t","y">>, <<"t","r","a","i","n","i","n","g">>, 
       <<"k","n","o","w","l","e","d","g","e">> >>

Keywords_finance ==
    << <<"m","o","n","e","y">>, <<"b","u","d","g","e","t">>, <<"f","i","n","a","n","c","e">>, 
       <<"i","n","v","e","s","t","m","e","n","t">>, <<"s","a","v","i","n","g","s">>, 
       <<"b","a","n","k">>, <<"l","o","a","n">>, <<"c","r","e","d","i","t">>, 
       <<"d","e","b","t">>, <<"f","i","n","a","n","c","i","a","l">>, 
       <<"i","n","c","o","m","e">>, <<"e","x","p","e","n","s","e">> >>
\* domain_keywords: the domains in the order the dictionary lists them
DomainOrder == <<"work", "family", "entertainment", "health", "learning", "finance">>

domain_keywords ==
    [work          |-> Keywords_work,
     family        |-> Keywords_family,
     entertainment |-> Keywords_entertainment,
     health        |-> Keywords_health,
     learning      |-> Keywords_learning,
     finance       |-> Keywords_finance]

\* Python floats are IEEE-754 doubles with a significand of 53 bits
MantissaBits == 53

\* 2^e modulo m
RECURSIVE PowMod(_, _)
PowMod(e, m) ==
    IF e = 0 THEN 1 % m
    ELSE LET h == PowMod(e \div 2, m)
         IN  (h * h * (IF e % 2 = 1 THEN 2 ELSE 1)) % m

RECURSIVE Pow2(_)
Pow2(j) == IF j = 0 THEN 1 ELSE 2 * Pow2(j - 1)

\* a score: n tenths and c units of 1 / (10 * 2^53), its exact value being
\* (n * 2^53 + c) / (10 * 2^53); c stays far below 2^53
Float(n, c) == [n |-> n, c |-> c]

\* x >= t tenths
FloatAtLeast(x, t) == x.n > t \/ (x.n = t /\ x.c >= 0)

\* the binade of a positive x below 16: the j with 2^(j-1) <= x < 2^j
RECURSIVE Binade(_, _)
Binade(x, j) == IF FloatAtLeast(x, 5 * Pow2(j + 1)) THEN Binade(x, j + 1) ELSE j

\* the double nearest to the exact value x, ties to the even significand:
\* doubles of binade j are the multiples of 2^(j-53), 10 * 2^j units
FloatRound(x) ==
    IF x.n = 0 THEN Float(0, 0)
    ELSE LET m   == 10 * Pow2(Binade(x, 0))
             r   == (x.n * PowMod(MantissaBits, m) + x.c) % m
             r2  == (x.n * PowMod(MantissaBits, 2 * m) + x.c) % (2 * m)
         IN  IF 2 * r < m THEN Float(x.n, x.c - r)
             ELSE IF 2 * r > m THEN Float(x.n, x.c + m - r)
             ELSE IF r2 = r THEN Float(x.n, x.c - r)
             ELSE Float(x.n, x.c + m - r)

\* x + y of two doubles that are not negative: the exact sum, rounded
\* (a and b stand for the values of x and y, each evaluated once)
FloatAdd(x, y) ==
    CHOOSE z \in { IF a.n = 0 THEN b
                   ELSE IF b.n = 0 THEN a
                   ELSE FloatRound(Float(a.n + b.n, a.c + b.c)) : a \in {x}, b \in {y} } :
        TRUE

\* x > y
FloatGreater(x, y) == x.n > y.n \/ (x.n = y.n /\ x.c > y.c)

\* score = 0
FloatZero == Float(0, 0)

\* data['weight'], 1.0 for every domain
Weight == Float(10, 0)

\* data['weight'] * 0.7: the literal 0.7 is the double nearest to 7 tenths,
\* and 1.0 times it is that double
PartialWeight == FloatRound(Float(7, 0))

\* a whole word adds the weight and the partial weight as well
KeywordScoreBoth(message_lower, keyword) ==
    IF Contains(message_lower, keyword)
    THEN IF Contains(<<" ">> \o message_lower \o <<" ">>, <<" ">> \o keyword \o <<" ">>)
         THEN FloatAdd(Weight, PartialWeight)
         ELSE PartialWeight
    ELSE FloatZero

\* what one keyword adds to its domain's score: the weight for a whole word
\* between spaces, weight * 0.7 for a mere substring, nothing when absent
KeywordScore(message_lower, keyword) ==
    IF Contains(message_lower, keyword)
    THEN IF Contains(<<" ">> \o message_lower \o <<" ">>, <<" ">> \o keyword \o <<" ">>)
         THEN Weight
         ELSE PartialWeight
    ELSE FloatZero

\* score after the loop over the keywords, added up in the order of the list
RECURSIVE SumScores(_, _)
SumScores(message_lower, keywords) ==
    IF keywords = <<>> THEN FloatZero
    ELSE FloatAdd(SumScores(message_lower, SubSeq(keywords, 1, Len(keywords) - 1)),
                  KeywordScore(message_lower, keywords[Len(keywords)]))

\* domain_scores[domain]
DomainScore(message, domain) == SumScores(Lower(message), domain_keywords[domain])

\* max(domain_scores.items(), key=score): the first domain with the top score
RECURSIVE MaxDomain(_, _, _)
MaxDomain(message, best, i) ==
    IF i > Len(DomainOrder) THEN best
    ELSE IF FloatGreater(DomainScore(message, DomainOrder[i]), DomainScore(message, best))
         THEN MaxDomain(message, DomainOrder[i], i + 1)
         ELSE MaxDomain(message, best, i + 1)

\* the function ends without its last return
classify_message_domain_without_fallback(message) ==
    IF message = <<>> THEN "general"
    ELSE LET max_domain == MaxDomain(message, DomainOrder[1], 2)
         IN  IF FloatGreater(DomainScore(message, max_domain), FloatZero)
             THEN max_domain ELSE "None"

\* the top score has to be above 1
classify_message_domain_above_one(message) ==
    IF message = <<>> THEN "general"
    ELSE LET max_domain == MaxDomain(message, DomainOrder[1], 2)
         IN  IF FloatGreater(DomainScore(message, max_domain), Weight)
             THEN max_domain ELSE "general"

\* classify_message_domain(message)
classify_message_domain(message) ==
    IF message = <<>> THEN "general"
    ELSE LET max_domain == MaxDomain(message, DomainOrder[1], 2)
         IN  IF FloatGreater(DomainScore(message, max_domain), FloatZero)
             THEN max_domain ELSE "general"

-----------------------------------------------------------------------------
(* Callers *)

\* the callers that may run at the same time (two requests of the server)
Procs == {1, 2}

\* the locals of a caller that has not started
NoLocals ==
    [caller        |-> "none",
     user_message  |-> <<>>,
     bot_response  |-> <<>>,
     domain        |-> "general",
     conversation  |-> Conversation(<<>>, <<>>, "general", 0),
     history       |-> <<>>,
     ret           |-> FALSE,
     i             |-> 0,
     allOk         |-> TRUE,
     profile_data  |-> PyNone,
     loaded        |-> PyNone,
     raised        |-> FALSE,
     via           |-> "none",
     message       |-> <<>>,
     profile       |-> PyNone,
     relevant      |-> <<>>,
     recent        |-> <<>>,
     excepted      |-> "no",
     status        |-> 0,
     memory_context |-> <<>>]

\* where save_conversation returns to
ReturnPoint(caller) ==
    CASE caller = "loop" -> "loop_next"
      [] caller = "chat" -> "chat_reply"
      [] caller = "test" -> "test_saved"
      [] caller = "api"  -> "idle"
      [] caller = "form" -> "idle"
      [] OTHER           -> "done"

\* the texts are not checked: every call builds its record and goes on
SaveCheckUnguarded(p) ==
    /\ pc[p] = "save"
    /\ loc' = [loc EXCEPT ![p].conversation =
                  Conversation(loc[p].user_message, loc[p].bot_response,
                               loc[p].domain, now)]
    /\ pc' = [pc EXCEPT ![p] = "save_load"]
    /\ now' = now + 1
    /\ UNCHANGED <<histFile, profFile, out>>

\* save_conversation, memory.py:8-19: the emptiness check and the new record
SaveCheck(p) ==
    /\ pc[p] = "save"
    /\ IF loc[p].user_message = <<>> \/ loc[p].bot_response = <<>>
       THEN /\ loc' = [loc EXCEPT ![p].ret = FALSE]
            /\ pc' = [pc EXCEPT ![p] = ReturnPoint(loc[p].caller)]
            /\ now' = now
       ELSE /\ loc' = [loc EXCEPT ![p].conversation =
                          Conversation(loc[p].user_message, loc[p].bot_response,
                                       loc[p].domain, now)]
            /\ pc' = [pc EXCEPT ![p] = "save_load"]
            /\ now' = now + 1
    /\ UNCHANGED <<histFile, profFile, out>>

\* save_conversation, memory.py:23-30: load, append, cut to the last 100;
\* readFaults says whether reading the file may raise (TRUE) or not (FALSE)
SaveLoad(p, readFaults) ==
    /\ pc[p] = "save_load"
    /\ \E failed \in readFaults :
          loc' = [loc EXCEPT ![p].history =
                     AppendCapped(load_conversation_history(histFile, failed, now),
                                  loc[p].conversation)]
    /\ pc' = [pc EXCEPT ![p] = "save_open"]
    /\ UNCHANGED <<histFile, profFile, now, out>>

\* save_conversation, memory.py:33: open(..., 'w') empties the file, or raises
\* and leaves it as it was
SaveOpen(p) ==
    /\ pc[p] = "save_open"
    /\ \E raised \in BOOLEAN :
          IF raised
          THEN /\ loc' = [loc EXCEPT ![p].ret = FALSE]
               /\ pc' = [pc EXCEPT ![p] = ReturnPoint(loc[p].caller)]
               /\ histFile' = histFile
          ELSE /\ loc' = loc
               /\ pc' = [pc EXCEPT ![p] = "save_dump"]
               /\ histFile' = Garbage
    /\ UNCHANGED <<profFile, now, out>>

\* the write merges with a list another call has written meanwhile
SaveDumpMerging(p) ==
    /\ pc[p] = "save_dump"
    /\ \E raised \in BOOLEAN :
          IF raised
          THEN /\ loc' = [loc EXCEPT ![p].ret = FALSE]
               /\ histFile' = Garbage
          ELSE /\ loc' = [loc EXCEPT ![p].ret = TRUE]
               /\ histFile' =
                     IF histFile.kind = "list"
                     THEN DumpHistory(AppendCapped(
                              load_conversation_history(histFile, FALSE, now),
                              loc[p].conversation))
                     ELSE DumpHistory(loc[p].history)
    /\ pc' = [pc EXCEPT ![p] = ReturnPoint(loc[p].caller)]
    /\ UNCHANGED <<profFile, now, out>>

\* save_conversation, memory.py:34-39: json.dump writes the list, or raises
\* part-way and leaves a document that cannot be decoded
SaveDump(p) ==
    /\ pc[p] = "save_dump"
    /\ \E raised \in BOOLEAN :
          IF raised
          THEN /\ loc' = [loc EXCEPT ![p].ret = FALSE]
               /\ histFile' = Garbage
          ELSE /\ loc' = [loc EXCEPT ![p].ret = TRUE]
               /\ histFile' = DumpHistory(loc[p].history)
    /\ pc' = [pc EXCEPT ![p] = ReturnPoint(loc[p].caller)]
    /\ UNCHANGED <<profFile, now, out>>

-----------------------------------------------------------------------------
(* performance_test.py: a loop of save_conversation calls *)

\* how many calls the loop makes
PerfSaves == 110

\* f"Test user message {i}"
TestUserMessage(i) ==
    <<"T","e","s","t"," ","u","s","e","r"," ","m","e","s","s","a","g","e"," ">>
        \o Decimal(i)

\* f"Test assistant response {i}"
TestAssistantResponse(i) ==
    <<"T","e","s","t"," ","a","s","s","i","s","t","a","n","t"," ",
      "r","e","s","p","o","n","s","e"," ">> \o Decimal(i)

\* the loop calls save_conversation for its index i; it goes on for as long as
\* every call so far has returned True
LoopCall(p) ==
    /\ pc[p] = "loop"
    /\ loc[p].i < PerfSaves
    /\ loc[p].allOk
    /\ loc' = [loc EXCEPT ![p].user_message = TestUserMessage(loc[p].i),
                          ![p].bot_response = TestAssistantResponse(loc[p].i),
                          ![p].domain = "general"]
    /\ pc' = [pc EXCEPT ![p] = "save"]
    /\ UNCHANGED <<histFile, profFile, now, out>>

\* the call returned: the next index
LoopNext(p) ==
    /\ pc[p] = "loop_next"
    /\ loc' = [loc EXCEPT ![p].i = loc[p].i + 1,
                          ![p].allOk = loc[p].allOk /\ loc[p].ret]
    /\ pc' = [pc EXCEPT ![p] = "loop"]
    /\ UNCHANGED <<histFile, profFile, now, out>>

NoOutput ==
    [op |-> "none", arg |-> 0, query |-> <<>>, history |-> <<>>, ranked |-> <<>>,
     failed |-> FALSE, val |-> <<>>]

\* after the loop the log is loaded, performance_test.py:84; out.arg is the
\* number of calls the loop made
LoopLoad(p) ==
    /\ pc[p] = "loop"
    /\ loc[p].allOk
    /\ pc' = [pc EXCEPT ![p] = "perf_loaded"]
    /\ out' = [NoOutput EXCEPT !.op = "load",
                               !.arg = loc[p].i,
                               !.val = load_conversation_history(histFile, FALSE, now)]
    /\ UNCHANGED <<histFile, profFile, now, loc>>

InitCap ==
    /\ histFile \in {Absent, JsonList(<<>>)}
    /\ profFile = Absent
    /\ now = 0
    /\ pc = [p \in Procs |-> IF p = 1 THEN "loop" ELSE "off"]
    /\ loc = [p \in Procs |-> [NoLocals EXCEPT !.caller = IF p = 1 THEN "loop" ELSE "none"]]
    /\ out = NoOutput

NextCap ==
    \/ LoopCall(1)
    \/ SaveCheck(1)
    \/ SaveLoad(1, {FALSE})
    \/ SaveOpen(1)
    \/ SaveDump(1)
    \/ LoopNext(1)
    \/ LoopLoad(1)

SpecCap == InitCap /\ [][NextCap]_vars

\* the records the loop has appended with its first k calls, kept by the log
KeptCount(k) == IF k < MaxHistory THEN k ELSE MaxHistory

-----------------------------------------------------------------------------
(* The two read queries of the log, called on logs of every shape *)

\* the longest persisted list the queries are tried on
MaxLog == 3

\* the largest count or max_results asked for beyond the longest list
MaxOver == 1

\* user and assistant texts of the records in the persisted lists
LogTexts ==
    { << <<"P","l","a","n"," ","a"," ","M","e","e","t","i","n","g","!">>,
         <<"O","k",","," ","n","o","t","e","d">> >>,
      << <<"m","y"," ","c","a","t">>, <<"n","i","c","e"," ","c","a","t">> >>,
      << <<"c","a","t","e","g","o","r","y"," ","t","o"," ","b","e">>,
         <<"a","n"," ","i","d","e","a">> >> }

\* the queries asked
Queries ==
    { <<>>,
      <<" ">>,
      <<"t","o"," ","b","e","!">>,
      <<"?","!">>,
      <<"c","a","t">>,
      <<"C","a","t","?"," ","m","e","e","t","i","n","g">>,
      <<"n","o","t","e","d"," ","d","o","g"," ","a","n">>,
      <<"i","d",".","e","a">>,
      <<"c","a","t"," ","n","i","c","e">>,
      <<"c","a","t"," ","c","a","t"," ","n","o","t","e","d">> }

\* an object without the key assistant
HalfRecord == JsonDict([user |-> <<"m","y"," ","c","a","t">>])

\* the items a persisted list may hold: records that save_conversation wrote
\* at instant t, a JSON value that is not an object, and an object that
\* lacks a key
LogItems(t) ==
    { JsonDict(Conversation(x[1], x[2], "general", t)) : x \in LogTexts }
    \cup {Scalar, HalfRecord}

\* the persisted lists of at most n items, the i-th written at instant i
RECURSIVE LogLists(_)
LogLists(n) ==
    IF n = 0 THEN { <<>> }
    ELSE LogLists(n - 1)
         \cup { Append(l, e) : l \in { m \in LogLists(n - 1) : Len(m) = n - 1 },
                               e \in LogItems(n) }

\* the documents conversation_history.json may hold
LogFiles == {Absent, Garbage, Scalar} \cup { JsonList(l) : l \in LogLists(MaxLog) }

\* a caller asks get_recent_conversations(count)
CallRecent ==
    /\ pc[1] = "ask"
    /\ pc' = [pc EXCEPT ![1] = "done"]
    /\ \E count \in -1..(MaxLog + MaxOver), failed \in BOOLEAN :
        LET history == load_conversation_history(histFile, failed, now)
        IN  out' = [op |-> "recent", arg |-> count, query |-> <<>>,
                    history |-> history, ranked |-> <<>>, failed |-> failed,
                    val |-> get_recent_conversations(history, count)]
    /\ UNCHANGED <<histFile, profFile, now, loc>>

\* a caller asks find_relevant_conversations(query, max_results)
CallRelevant ==
    /\ pc[1] = "ask"
    /\ pc' = [pc EXCEPT ![1] = "done"]
    /\ \E query \in Queries, max_results \in -1..(MaxLog + MaxOver), failed \in BOOLEAN :
        LET history == load_conversation_history(histFile, failed, now)
        IN  out' = [op |-> "relevant", arg |-> max_results, query |-> query,
                    history |-> history,
                    ranked |-> relevant_conversations(history, query),
                    failed |-> failed,
                    val |-> find_relevant_conversations(history, query, max_results)]
    /\ UNCHANGED <<histFile, profFile, now, loc>>

\* a caller asks load_conversation_history()
CallLoad ==
    /\ pc[1] = "ask"
    /\ pc' = [pc EXCEPT ![1] = "done"]
    /\ \E failed \in BOOLEAN :
          out' = [NoOutput EXCEPT !.op = "load",
                                  !.failed = failed,
                                  !.val = load_conversation_history(histFile, failed, now)]
    /\ UNCHANGED <<histFile, profFile, now, loc>>

InitQuery ==
    /\ histFile \in LogFiles
    /\ profFile = Absent
    /\ now = MaxLog + 1
    /\ pc = [p \in Procs |-> IF p = 1 THEN "ask" ELSE "off"]
    /\ loc = [p \in Procs |-> NoLocals]
    /\ out = NoOutput

NextQuery ==
    \/ CallRecent
    \/ CallRelevant
    \/ CallLoad

SpecQuery == InitQuery /\ [][NextQuery]_vars

\* C8: get_recent_conversations(n) returns exactly min(max(n, 1), len(log))
\* records, the tail of the loaded log in its order, for every n (also n <= 0
\* and n beyond the log); on an empty log it returns the empty sequence.
RecentIsTail ==
    out.op = "recent" =>
        LET len == Len(out.history)
            n   == Min(Max(out.arg, 1), len)
        IN  /\ Len(out.val) = n
            /\ \A j \in 1..n : out.val[j] = out.history[len - n + j]
            /\ (len = 0 => out.val = <<>>)

\* a count of 0 or less was asked of a log of two or more and one record came
RecentClamped ==
    /\ out.op = "recent"
    /\ out.arg <= 0
    /\ Len(out.history) >= 2
    /\ Len(out.val) = 1
    /\ out.val[1] = out.history[Len(out.history)]

\* the tokens of the normalised query
NormalizedTokens(query) == Split(StripPunct(Lower(query)))

\* C9: find_relevant_conversations returns the empty sequence whenever the
\* query is empty or every token of the normalised query has length <= 2,
\* for every log and every max_results.
ShortQueryFindsNothing ==
    (/\ out.op = "relevant"
     /\ \A i \in 1..Len(NormalizedTokens(out.query)) :
           Len(NormalizedTokens(out.query)[i]) <= 2)
        => out.val = <<>>

\* a query of short tokens that occur in the log's records found nothing
ShortQueryAsked ==
    /\ out.op = "relevant"
    /\ out.query = <<"t","o"," ","b","e","!">>
    /\ \E i \in 1..Len(out.history) :
          Contains(out.history[i].user, <<"t","o">>)
    /\ out.val = <<>>

\* C10: every record find_relevant_conversations returns holds, in its
\* normalised user and assistant text, a query token longer than 2 as a
\* substring: a record of score 0 is never returned, whatever max_results is.
ReturnedRecordsMatch ==
    out.op = "relevant" =>
        \A j \in 1..Len(out.val) :
            LET text == StripPunct(Lower(out.val[j].user \o <<" ">> \o out.val[j].assistant))
                toks == NormalizedTokens(out.query)
            IN  \E i \in 1..Len(toks) : Len(toks[i]) > 2 /\ Contains(text, toks[i])

\* a query matched some records of the log and not others, and more results
\* were asked for than there were matches
SomeRecordsUnmatched ==
    /\ out.op = "relevant"
    /\ Len(out.val) >= 1
    /\ Len(out.val) < Len(out.history)
    /\ out.arg > Len(out.val)

\* the place of a record in the loaded log (records differ in their timestamps)
PlaceInLog(conv) == CHOOSE i \in 1..Len(out.history) : out.history[i] = conv

\* C11: the records find_relevant_conversations returns are in descending
\* order of score, and two returned records of equal score are in the order
\* they have in the log, the one appended earlier first.
ResultsRankedStably ==
    out.op = "relevant" =>
        /\ Len(out.val) <= Len(out.ranked)
        /\ \A j \in 1..Len(out.val) : out.val[j] = out.ranked[j].conv
        /\ \A j, k \in 1..Len(out.val) :
              j < k =>
                /\ ~ScoreGreater(out.ranked[k], out.ranked[j])
                /\ (~ScoreGreater(out.ranked[j], out.ranked[k])
                      => PlaceInLog(out.val[j]) < PlaceInLog(out.val[k]))

\* three records came back: the second of the log first for its higher
\* score, then the first and the third, which tie, in their log order
RankedWithTie ==
    /\ out.op = "relevant"
    /\ Len(out.history) = 3
    /\ out.val = <<out.history[2], out.history[1], out.history[3]>>
    /\ ScoreGreater(out.ranked[1], out.ranked[2])
    /\ ~ScoreGreater(out.ranked[2], out.ranked[3])

\* the query words of the normalised query: its tokens longer than 2
LongTokens(query) ==
    LET toks == NormalizedTokens(query)
    IN  SelectSeq(toks, LAMBDA w : Len(w) > 2)

\* the normalised text of a record
NormalizedText(conv) == StripPunct(Lower(conv.user \o <<" ">> \o conv.assistant))

\* C12 as stated: a record's score is the number of distinct query tokens
\* that occur in the record's normalised text, divided by the total count of
\* query tokens; a token repeated in the query adds 1 at most.
ScoreCountsDistinctTokens ==
    out.op = "relevant" =>
        \A j \in 1..Len(out.ranked) :
            LET toks == LongTokens(out.query)
                text == NormalizedText(out.ranked[j].conv)
            IN  /\ out.ranked[j].score.den = Len(toks)
                /\ out.ranked[j].score.num
                      = Cardinality({ toks[i] : i \in { n \in 1..Len(toks) :
                                                          Contains(text, toks[n]) } })

\* C12, amended: a record's score is the number of places in the query's
\* token list (tokens longer than 2) whose token occurs in the record's
\* normalised text, divided by the length of that list: a token adds 1 at
\* most however often the record's text repeats it, and adds 1 for each
\* time the query repeats it.
ScoreCountsQueryPlaces ==
    out.op = "relevant" =>
        \A j \in 1..Len(out.ranked) :
            LET toks == LongTokens(out.query)
                text == NormalizedText(out.ranked[j].conv)
                hit  == [i \in 1..Len(toks) |->
                           IF \E k \in 1..(Len(text) - Len(toks[i]) + 1) :
                                 SubSeq(text, k, k + Len(toks[i]) - 1) = toks[i]
                           THEN 1 ELSE 0]
                Sum[i \in 0..Len(toks)] == IF i = 0 THEN 0 ELSE Sum[i - 1] + hit[i]
            IN  /\ out.ranked[j].score.den = Len(toks)
                /\ out.ranked[j].score.num = Sum[Len(toks)]
                /\ out.ranked[j].score.num >= 1

\* the query names cat twice and the record's text holds cat twice: the
\* record scores 2 of 3
RepeatedTokenScored ==
    /\ out.op = "relevant"
    /\ out.query = <<"c","a","t"," ","c","a","t"," ","n","o","t","e","d">>
    /\ \E j \in 1..Len(out.ranked) :
          /\ Occurrences(NormalizedText(out.ranked[j].conv), <<"c","a","t">>) = 2
          /\ out.ranked[j].score = [num |-> 2, den |-> 3]

\* the records of the loaded log that hold a query token longer than 2
MatchingPlaces ==
    { i \in 1..Len(out.history) :
        \E n \in 1..Len(LongTokens(out.query)) :
            Contains(NormalizedText(out.history[i]), LongTokens(out.query)[n]) }

\* C13: with matchCount the number of records scoring above 0,
\* find_relevant_conversations(query, maxResults) returns the first
\* clamp(maxResults, 1, matchCount) records of the ranked list, as records
\* without scores: one record for maxResults <= 0 when any record matches,
\* none when no record matches.
ResultsAreClampedPrefix ==
    out.op = "relevant" =>
        LET matchCount == Cardinality(MatchingPlaces)
            n == IF matchCount = 0 THEN 0 ELSE Min(Max(out.arg, 1), matchCount)
        IN  /\ Len(out.ranked) = matchCount
            /\ Len(out.val) = n
            /\ \A j \in 1..n :
                  /\ out.val[j] = out.ranked[j].conv
                  /\ out.val[j] \in { out.history[i] : i \in MatchingPlaces }
                  /\ "score" \notin DOMAIN out.val[j]

\* max_results of 0 or less was asked, two or more records matched, and the
\* top record alone came back
NonPositiveMaxGivesOne ==
    /\ out.op = "relevant"
    /\ out.arg <= 0
    /\ Len(out.ranked) >= 2
    /\ Len(out.val) = 1
    /\ out.val[1] = out.ranked[1].conv

\* the places of the persisted list that hold a record with the keys user
\* and assistant
ValidPlaces ==
    { i \in 1..Len(histFile.items) :
        /\ histFile.items[i].kind = "dict"
        /\ {"user", "assistant"} \subseteq DOMAIN histFile.items[i].fields }

\* the j-th of them
ValidPlace(j) ==
    CHOOSE i \in ValidPlaces : Cardinality({ k \in ValidPlaces : k < i }) = j - 1

\* C20: load_conversation_history returns the empty sequence when no log is
\* persisted; when the persisted list holds entries that are not records or
\* lack user or assistant, it returns all the other entries in their order
\* and drops only those, so a corrupt entry never costs a valid one.
LoadKeepsValidEntries ==
    (out.op = "load" /\ ~out.failed) =>
        /\ (histFile.kind = "absent" => out.val = <<>>)
        /\ (histFile.kind = "list" =>
              /\ Len(out.val) = Cardinality(ValidPlaces)
              /\ \A j \in 1..Len(out.val) :
                    \A key \in DOMAIN histFile.items[ValidPlace(j)].fields :
                        out.val[j][key] = histFile.items[ValidPlace(j)].fields[key])

\* a list of three was loaded whose first entry is no object, whose second
\* lacks assistant, and whose third came back
CorruptEntriesSkipped ==
    /\ out.op = "load"
    /\ ~out.failed
    /\ histFile.kind = "list"
    /\ Len(histFile.items) = 3
    /\ histFile.items[1] = Scalar
    /\ histFile.items[2] = HalfRecord
    /\ ValidPlaces = {3}
    /\ Len(out.val) = 1
    /\ out.val[1].timestamp = 3

-----------------------------------------------------------------------------
(* profiles.py *)

\* a record with one more field
WithField(fields, key, value) ==
    [k \in DOMAIN fields \cup {key} |-> IF k = key THEN value ELSE fields[k]]

\* a record without one of its fields
WithoutField(fields, key) == [k \in DOMAIN fields \ {key} |-> fields[k]]

\* communication_style is not asked for
required_fields_without_style == <<"name", "role">>

\* required_fields, profiles.py:14
required_fields == <<"name", "role", "communication_style">>

\* not profile_data.get(field): the field is missing or its value is empty
FieldMissing(fields, field) == field \notin DOMAIN fields \/ fields[field] = ""

\* not profile_data: None, or a dictionary without keys
IsFalsy(value) == value.kind = "none" \/ (value.kind = "dict" /\ DOMAIN value.fields = {})

\* whether json.dump can encode the dictionary: a value under last_seen is a
\* datetime object, which it cannot
IsSerializable(fields) == "last_seen" \notin DOMAIN fields

\* the write stamps updated_date with the instant of the save
DumpProfileStamped(profile_data) ==
    JsonDict(WithField(profile_data.fields, "updated_date", now))

\* json.dump(profile_data, f): the document a completed write leaves
DumpProfile(profile_data) == JsonDict(profile_data.fields)

\* save_user_profile, profiles.py:8-18: the checks before the file is opened.
\* A value that is not a dictionary has no get: the AttributeError is not a
\* PermissionError, and naming json.JSONEncodeError in the next except clause
\* raises an AttributeError that leaves the function.
ProfCheck(p) ==
    /\ pc[p] = "psave"
    /\ LET data == loc[p].profile_data
       IN  IF IsFalsy(data)
           THEN /\ loc' = [loc EXCEPT ![p].ret = FALSE]
                /\ pc' = [pc EXCEPT ![p] = ReturnPoint(loc[p].caller)]
           ELSE IF data.kind # "dict"
           THEN /\ loc' = [loc EXCEPT ![p].raised = TRUE]
                /\ pc' = [pc EXCEPT ![p] = ReturnPoint(loc[p].caller)]
           ELSE IF \E i \in 1..Len(required_fields) :
                       FieldMissing(data.fields, required_fields[i])
           THEN /\ loc' = [loc EXCEPT ![p].ret = FALSE]
                /\ pc' = [pc EXCEPT ![p] = ReturnPoint(loc[p].caller)]
           ELSE /\ loc' = loc
                /\ pc' = [pc EXCEPT ![p] = "psave_open"]
    /\ UNCHANGED <<histFile, profFile, now, out>>

\* save_user_profile, profiles.py:21: open(..., 'w') empties the file.  A
\* PermissionError is caught and False returned; any other error of open
\* leaves the function as an AttributeError (profiles.py:27).
ProfOpen(p) ==
    /\ pc[p] = "psave_open"
    /\ \E fault \in {"none", "permission", "other"} :
          CASE fault = "none" ->
                 /\ profFile' = Garbage
                 /\ loc' = loc
                 /\ pc' = [pc EXCEPT ![p] = "psave_dump"]
            [] fault = "permission" ->
                 /\ profFile' = profFile
                 /\ loc' = [loc EXCEPT ![p].ret = FALSE]
                 /\ pc' = [pc EXCEPT ![p] = ReturnPoint(loc[p].caller)]
            [] fault = "other" ->
                 /\ profFile' = profFile
                 /\ loc' = [loc EXCEPT ![p].raised = TRUE]
                 /\ pc' = [pc EXCEPT ![p] = ReturnPoint(loc[p].caller)]
    /\ UNCHANGED <<histFile, now, out>>

\* save_user_profile, profiles.py:22-23: json.dump writes the document and
\* True is returned; a value it cannot encode, or a failing write, raises
\* part-way, and the error leaves the function (profiles.py:27)
ProfDump(p) ==
    /\ pc[p] = "psave_dump"
    /\ \E failed \in BOOLEAN :
          IF failed \/ ~IsSerializable(loc[p].profile_data.fields)
          THEN /\ profFile' = Garbage
               /\ loc' = [loc EXCEPT ![p].raised = TRUE]
          ELSE /\ profFile' = DumpProfile(loc[p].profile_data)
               /\ loc' = [loc EXCEPT ![p].ret = TRUE]
    /\ pc' = [pc EXCEPT ![p] = ReturnPoint(loc[p].caller)]
    /\ UNCHANGED <<histFile, now, out>>

\* the decoded document is returned whatever it is
load_user_profile_unvalidated(file, failed) ==
    IF file.kind = "absent" \/ failed THEN PyNone
    ELSE IF file.kind = "garbage" THEN PyNone
    ELSE file

\* load_user_profile(): failed is whether opening or reading raised
load_user_profile(file, failed) ==
    IF file.kind = "absent" \/ failed THEN PyNone
    ELSE IF file.kind # "dict" THEN PyNone
    ELSE JsonDict(file.fields)

-----------------------------------------------------------------------------
(* The callers of the profile store *)

\* the latest instant the form may be submitted at
MaxClock == 2

\* the profile test_profile_system saves
TestProfile ==
    [name |-> "Test User", role |-> "Student",
     communication_style |-> "Casual and friendly",
     help_areas |-> <<"Learning new things">>,
     work_hours |-> "Flexible schedule", created_date |-> 0]

\* the values callers pass to save_user_profile
ProfileInputs ==
    { PyNone,
      Scalar,
      JsonDict(WithoutField(TestProfile, "name")),
      JsonDict(WithField(TestProfile, "role", "")),
      JsonDict(WithoutField(TestProfile, "communication_style")),
      JsonDict(TestProfile),
      JsonDict(WithField(TestProfile, "updated_date", 0)),
      JsonDict(WithField(TestProfile, "last_seen", "datetime")) }

\* test_profile_system and POST /api/profile call save_user_profile
ProfCallSave(p) ==
    /\ pc[p] = "idle"
    /\ \E data \in ProfileInputs, caller \in {"test", "api"} :
          loc' = [loc EXCEPT ![p] = [NoLocals EXCEPT !.caller = caller,
                                                     !.profile_data = data]]
    /\ pc' = [pc EXCEPT ![p] = "psave"]
    /\ UNCHANGED <<histFile, profFile, now, out>>

\* show_profile_setup, profiles.py:146-175: the submitted form passed its own
\* checks; the profile is built with the dates and saved
ProfFormSubmit(p) ==
    /\ pc[p] = "idle"
    /\ now < MaxClock
    /\ \E failed \in BOOLEAN, name \in {"Ann", "Bo"} :
          LET existing == load_user_profile(profFile, failed)
              created  == IF existing.kind = "dict"
                             /\ "created_date" \in DOMAIN existing.fields
                          THEN existing.fields.created_date
                          ELSE now
          IN  loc' = [loc EXCEPT ![p] =
                        [NoLocals EXCEPT
                           !.caller = "form",
                           !.profile_data = JsonDict(
                              [name |-> name, role |-> "Student", work_area |-> "",
                               family_info |-> "", interests |-> "",
                               communication_style |-> "Casual and friendly",
                               help_areas |-> <<>>, work_hours |-> "Morning person",
                               created_date |-> created, updated_date |-> now])]]
    /\ now' = now + 1
    /\ pc' = [pc EXCEPT ![p] = "psave"]
    /\ UNCHANGED <<histFile, profFile, out>>

\* test_profile_system, test_system.py:67-69: after a save that returned True
\* the profile is loaded
TestLoad(p) ==
    /\ pc[p] = "test_saved"
    /\ IF loc[p].ret = TRUE
       THEN \E failed \in BOOLEAN :
               loc' = [loc EXCEPT ![p].loaded = load_user_profile(profFile, failed)]
       ELSE loc' = loc
    /\ pc' = [pc EXCEPT ![p] = "test_done"]
    /\ UNCHANGED <<histFile, profFile, now, out>>

\* test_profile_system returns
TestReturn(p) ==
    /\ pc[p] = "test_done"
    /\ pc' = [pc EXCEPT ![p] = "idle"]
    /\ UNCHANGED <<histFile, profFile, now, loc, out>>

\* GET /api/profile, api_server.py:104-106
ProfCallLoad(p) ==
    /\ pc[p] = "idle"
    /\ \E failed \in BOOLEAN :
          out' = [NoOutput EXCEPT !.op = "load_profile",
                                  !.failed = failed,
                                  !.val = load_user_profile(profFile, failed)]
    /\ UNCHANGED <<histFile, profFile, now, pc, loc>>

\* the delete button, profiles.py:213-218, shown when a profile was loaded
ProfDelete(p) ==
    /\ pc[p] = "idle"
    /\ \E failed \in BOOLEAN : ~IsFalsy(load_user_profile(profFile, failed))
    /\ profFile' = Absent
    /\ UNCHANGED <<histFile, now, pc, loc, out>>

InitProfile ==
    /\ histFile = Absent
    /\ profFile \in {Absent, Garbage, Scalar, JsonDict(TestProfile)}
    /\ now = 1
    /\ pc = [p \in Procs |-> IF p = 1 THEN "idle" ELSE "off"]
    /\ loc = [p \in Procs |-> NoLocals]
    /\ out = NoOutput

NextProfile ==
    \/ ProfCallSave(1)
    \/ ProfFormSubmit(1)
    \/ ProfCheck(1)
    \/ ProfOpen(1)
    \/ ProfDump(1)
    \/ TestLoad(1)
    \/ TestReturn(1)
    \/ ProfCallLoad(1)
    \/ ProfDelete(1)

SpecProfile == InitProfile /\ [][NextProfile]_vars

\* a profile without a name, a role or a communication style, or no profile
LacksRequired(data) ==
    \/ data.kind = "none"
    \/ /\ data.kind = "dict"
       /\ \E f \in {"name", "role", "communication_style"} :
             f \notin DOMAIN data.fields \/ data.fields[f] = ""

\* C4: save_user_profile called with a profile in which name, role or
\* communication_style is missing or empty, or with no profile, returns False
\* without raising, and the persisted profile, absent or not, is what it was.
RejectedSaveLeavesProfile ==
    [][(pc[1] = "psave" /\ LacksRequired(loc[1].profile_data)) =>
          /\ profFile' = profFile
          /\ pc'[1] = ReturnPoint(loc[1].caller)
          /\ loc'[1].ret = FALSE
          /\ loc'[1].raised = FALSE]_vars

\* a profile without a communication style was refused and the stored
\* profile is still there
SaveWasRejected ==
    /\ pc[1] = "idle"
    /\ loc[1].caller = "api"
    /\ loc[1].profile_data.kind = "dict"
    /\ "communication_style" \notin DOMAIN loc[1].profile_data.fields
    /\ loc[1].ret = FALSE
    /\ profFile = JsonDict(TestProfile)

\* C5: save_user_profile, load_user_profile, save_conversation and
\* load_conversation_history turn every failure of the file read or write into
\* False, None or the empty list: no exception reaches a caller.
NoExceptionReachesCaller ==
    [][\A p \in Procs :
          pc[p] \in {"psave_open", "psave_dump", "save_load", "save_open", "save_dump"}
             => loc'[p].raised = FALSE]_vars

\* C6: a profile save replaces the stored profile atomically: every step of a
\* save leaves the file holding the complete old record or the complete new
\* one, never an empty or partial document.
ProfileSaveIsAtomic ==
    [][pc[1] \in {"psave", "psave_open", "psave_dump"} =>
          profFile' \in {profFile, DumpProfile(loc[1].profile_data)}]_vars

\* a profile save_user_profile accepts
HasRequired(data) ==
    /\ data.kind = "dict"
    /\ \A f \in {"name", "role", "communication_style"} :
          f \in DOMAIN data.fields /\ data.fields[f] # ""

\* C7 as stated: after save_user_profile(P) returned True for a valid P, the
\* profile loaded next equals P in every field except updated_date, and its
\* updated_date is that of this save: no earlier than the last reading of the
\* clock before it.
RoundTripStampsUpdatedDate ==
    (/\ pc[1] = "test_done"
     /\ HasRequired(loc[1].profile_data)
     /\ loc[1].ret = TRUE
     /\ loc[1].loaded.kind = "dict") =>
        LET P == loc[1].profile_data.fields
            L == loc[1].loaded.fields
        IN  /\ DOMAIN L = DOMAIN P \cup {"updated_date"}
            /\ \A k \in DOMAIN P \ {"updated_date"} : L[k] = P[k]
            /\ L.updated_date >= now - 1

\* C7, amended: after save_user_profile(P) returned True, the profile loaded
\* next is P itself, field for field and updated_date included (or None when
\* the read fails): the save stores P as given and stamps nothing.
RoundTripReturnsProfileAsGiven ==
    (pc[1] = "test_done" /\ loc[1].ret = TRUE) =>
        loc[1].loaded \in {JsonDict(loc[1].profile_data.fields), PyNone}

\* a profile carrying an updated_date older than the last clock reading was
\* saved and loaded back with that date
StaleDateLoadedBack ==
    /\ pc[1] = "test_done"
    /\ loc[1].ret = TRUE
    /\ loc[1].loaded = loc[1].profile_data
    /\ loc[1].loaded.kind = "dict"
    /\ "updated_date" \in DOMAIN loc[1].loaded.fields
    /\ loc[1].loaded.fields.updated_date < now - 1

-----------------------------------------------------------------------------
(* api_server.py chat() and the send handler of chatbot.py main() *)

\* f"Error: {str(e)}"
ErrorText(e) == <<"E","r","r","o","r",":"," ">> \o e

\* str(e) of the exceptions the completion call and the prompt raise
TimeoutMessage == <<"t","i","m","e","d"," ","o","u","t">>
KeyErrorMessage == <<"'","w","o","r","k","_","a","r","e","a","'">>

\* the keys the system prompt reads with profile[...]
PromptKeys ==
    {"name", "role", "work_area", "communication_style", "work_hours", "interests",
     "help_areas"}

\* the messages sent
ChatMessages == { <<>>, <<" ">>, <<"m","y"," ","c","a","t">> }

\* response.choices[0].message.content of a completion that succeeded
Replies == { <<"n","i","c","e"," ","c","a","t","!">>, <<>> }

\* the profiles sent with a message
ChatProfiles == { PyNone, JsonDict(TestProfile) }

\* the record already in the log when the requests arrive
EarlierRecord ==
    Conversation(<<"h","e","l","l","o">>, <<"h","i">>, "general", 1)

\* a user text of more than 40 characters
LongUserText ==
    <<"p","l","e","a","s","e"," ","r","e","m","i","n","d"," ","m","e"," ","w","h","a",
      "t"," ","w","e"," ","p","l","a","n","n","e","d"," ","f","o","r"," ","m","y"," ",
      "c","a","t">>

\* a log of three records, all of them about the cat
CatLog ==
    <<Conversation(<<"m","y"," ","c","a","t">>, <<"o","k">>, "general", 0),
      Conversation(LongUserText, <<"n","o","t","e","d">>, "general", 0),
      Conversation(<<"c","a","t">>, <<"m","e","o","w">>, "general", 1)>>

\* "Previous relevant conversations:\n"
RelevantHeader ==
    <<"P","r","e","v","i","o","u","s"," ","r","e","l","e","v","a","n","t"," ","c","o",
      "n","v","e","r","s","a","t","i","o","n","s",":","\n">>

\* "\nRecent context:\n"
RecentHeader ==
    <<"\n","R","e","c","e","n","t"," ","c","o","n","t","e","x","t",":","\n">>

\* f"- You previously discussed: '{conv['user'][:60]}...'\n"
RelevantLine(conv) ==
    <<"-"," ","Y","o","u"," ","p","r","e","v","i","o","u","s","l","y"," ","d","i","s",
      "c","u","s","s","e","d",":"," ","'">>
    \o FirstSlice(conv.user, 60) \o <<".", ".", ".", "'", "\n">>

\* f"- Recent: {conv['user'][:40]}... -> {conv['assistant'][:40]}...\n"
RecentLine(conv) ==
    <<"-"," ","R","e","c","e","n","t",":"," ">>
    \o FirstSlice(conv.user, 40)
    \o <<".", ".", ".", " ", "-", ">", " ">>
    \o FirstSlice(conv.assistant, 40) \o <<".", ".", ".", "\n">>

\* every record of recent_conversations gets a line
MemoryContextOfAllRecent(relevant, recent) ==
    (IF relevant # <<>>
     THEN <<RelevantHeader>>
          \o [i \in 1..Len(relevant) |->
                RelevantLine(relevant[i])]
     ELSE <<>>)
    \o (IF recent # <<>>
        THEN <<RecentHeader>>
             \o [i \in 1..Len(recent) |->
                   RecentLine(recent[i])]
        ELSE <<>>)

\* memory_context of get_smart_response, api_server.py:29-38 and
\* chatbot.py:44-53, as the sequence of the pieces added to it with +=
MemoryContext(relevant, recent) ==
    (IF relevant # <<>>
     THEN <<RelevantHeader>>
          \o [i \in 1..Len(relevant) |->
                RelevantLine(relevant[i])]
     ELSE <<>>)
    \o (IF recent # <<>>
        THEN <<RecentHeader>>
             \o [i \in 1..Len(LastSlice(recent, 2)) |->
                   RecentLine(LastSlice(recent, 2)[i])]
        ELSE <<>>)

\* the message is not checked: every request goes on to get_smart_response
ChatReceiveUnchecked(p) ==
    /\ pc[p] = "idle"
    /\ \E via \in {"api", "ui"}, message \in ChatMessages, profile \in ChatProfiles :
          /\ loc' = [loc EXCEPT ![p] = [NoLocals EXCEPT !.caller = "chat", !.via = via,
                                                        !.message = message,
                                                        !.profile = profile]]
          /\ pc' = [pc EXCEPT ![p] = "chat_relevant"]
    /\ UNCHANGED <<histFile, profFile, now, out>>

\* the request arrives: chat() answers 400 to a missing or empty message
\* (api_server.py:77-82); the send handler does nothing unless the stripped
\* input is non-empty (chatbot.py:223)
ChatReceive(p) ==
    /\ pc[p] = "idle"
    /\ \E via \in {"api", "ui"}, message \in ChatMessages, profile \in ChatProfiles :
          LET l == [NoLocals EXCEPT !.caller = "chat", !.via = via,
                                    !.message = message, !.profile = profile]
          IN  IF via = "api" /\ message = <<>>
              THEN /\ loc' = [loc EXCEPT ![p] = [l EXCEPT !.status = 400]]
                   /\ pc' = [pc EXCEPT ![p] = "done"]
              ELSE IF via = "ui" /\ Strip(message) = <<>>
              THEN /\ loc' = [loc EXCEPT ![p] = l]
                   /\ pc' = [pc EXCEPT ![p] = "done"]
              ELSE /\ loc' = [loc EXCEPT ![p] = l]
                   /\ pc' = [pc EXCEPT ![p] = "chat_relevant"]
    /\ UNCHANGED <<histFile, profFile, now, out>>

\* get_smart_response, api_server.py:22-25 and chatbot.py:37-40: the client
\* is made (which raises without an API key) and the relevant history read
ChatRelevant(p) ==
    /\ pc[p] = "chat_relevant"
    /\ \E noKey \in BOOLEAN, failed \in BOOLEAN :
          IF noKey
          THEN /\ loc' = [loc EXCEPT ![p].bot_response = ErrorText(TimeoutMessage),
                                     ![p].excepted = "client"]
               /\ pc' = [pc EXCEPT ![p] = "chat_classify"]
          ELSE /\ loc' = [loc EXCEPT ![p].relevant =
                             find_relevant_conversations(
                                 load_conversation_history(histFile, failed, now),
                                 loc[p].message, 2)]
               /\ pc' = [pc EXCEPT ![p] = "chat_recent"]
    /\ UNCHANGED <<histFile, profFile, now, out>>

\* get_smart_response, api_server.py:26 and chatbot.py:41
ChatRecent(p) ==
    /\ pc[p] = "chat_recent"
    /\ \E failed \in BOOLEAN :
          loc' = [loc EXCEPT ![p].recent =
                     get_recent_conversations(
                         load_conversation_history(histFile, failed, now), 3)]
    /\ pc' = [pc EXCEPT ![p] = "chat_complete"]
    /\ UNCHANGED <<histFile, profFile, now, out>>

\* get_smart_response, api_server.py:29-72 and chatbot.py:44-87: the prompt
\* is built, which raises a KeyError when the profile lacks a key it reads,
\* and the completion is asked for; every exception becomes the text returned
ChatComplete(p) ==
    /\ pc[p] = "chat_complete"
    /\ LET memory_context == MemoryContext(loc[p].relevant, loc[p].recent)
       IN  IF ~IsFalsy(loc[p].profile)
              /\ (loc[p].profile.kind # "dict"
                  \/ ~(PromptKeys \subseteq DOMAIN loc[p].profile.fields))
           THEN loc' = [loc EXCEPT ![p].bot_response = ErrorText(KeyErrorMessage),
                                   ![p].excepted = "prompt",
                                   ![p].memory_context = memory_context]
           ELSE \/ \E reply \in Replies :
                     loc' = [loc EXCEPT ![p].bot_response = reply,
                                        ![p].memory_context = memory_context]
                \/ loc' = [loc EXCEPT ![p].bot_response = ErrorText(TimeoutMessage),
                                      ![p].excepted = "completion",
                                      ![p].memory_context = memory_context]
    /\ pc' = [pc EXCEPT ![p] = "chat_classify"]
    /\ UNCHANGED <<histFile, profFile, now, out>>

\* api_server.py:88-91 and chatbot.py:235-236: the domain is classified and
\* save_conversation(message, response, domain) called
ChatClassify(p) ==
    /\ pc[p] = "chat_classify"
    /\ loc' = [loc EXCEPT ![p].domain = classify_message_domain(loc[p].message),
                          ![p].user_message = loc[p].message]
    /\ pc' = [pc EXCEPT ![p] = "save"]
    /\ UNCHANGED <<histFile, profFile, now, out>>

\* the recent history is read once more after the exchange was appended
ChatReplyRereads(p) ==
    /\ pc[p] = "chat_reply"
    /\ \E failed \in BOOLEAN :
          loc' = [loc EXCEPT ![p].status = IF loc[p].via = "api" THEN 200 ELSE 0,
                             ![p].recent =
                                 get_recent_conversations(
                                     load_conversation_history(histFile, failed, now), 3)]
    /\ pc' = [pc EXCEPT ![p] = "done"]
    /\ UNCHANGED <<histFile, profFile, now, out>>

\* api_server.py:93-97: the answer is sent; chatbot.py:239: the page reruns
ChatReply(p) ==
    /\ pc[p] = "chat_reply"
    /\ loc' = [loc EXCEPT ![p].status = IF loc[p].via = "api" THEN 200 ELSE 0]
    /\ pc' = [pc EXCEPT ![p] = "done"]
    /\ UNCHANGED <<histFile, profFile, now, out>>

InitChat ==
    /\ histFile \in {Absent, DumpHistory(<<EarlierRecord>>)}
    /\ profFile = Absent
    /\ now = 2
    /\ pc = [p \in Procs |-> "idle"]
    /\ loc = [p \in Procs |-> NoLocals]
    /\ out = NoOutput

NextChat ==
    \E p \in Procs :
        \/ ChatReceive(p)
        \/ ChatRelevant(p)
        \/ ChatRecent(p)
        \/ ChatComplete(p)
        \/ ChatClassify(p)
        \/ SaveCheck(p)
        \/ SaveLoad(p, BOOLEAN)
        \/ SaveOpen(p)
        \/ SaveDump(p)
        \/ ChatReply(p)

SpecChat == InitChat /\ [][NextChat]_vars

\* the logs one request is served on
PromptLogs ==
    { Absent, Garbage,
      DumpHistory(<<EarlierRecord>>),
      DumpHistory(SubSeq(CatLog, 2, 3)),
      DumpHistory(CatLog),
      DumpHistory(<<EarlierRecord>> \o CatLog) }

\* one request on a log of up to four records
InitPrompt ==
    /\ histFile \in PromptLogs
    /\ profFile = Absent
    /\ now = 2
    /\ pc = [p \in Procs |-> "idle"]
    /\ loc = [p \in Procs |-> NoLocals]
    /\ out = NoOutput

NextPrompt ==
    \/ ChatReceive(1)
    \/ ChatRelevant(1)
    \/ ChatRecent(1)
    \/ ChatComplete(1)
    \/ ChatClassify(1)
    \/ SaveCheck(1)
    \/ SaveLoad(1, BOOLEAN)
    \/ SaveOpen(1)
    \/ SaveDump(1)
    \/ ChatReply(1)

SpecPrompt == InitPrompt /\ [][NextPrompt]_vars

\* whether the conversation is among the items of the persisted log
Persisted(conversation) ==
    \E i \in 1..Len(histFile.items) : histFile.items[i] = JsonDict(conversation)

\* whether the conversation is in the list
InHistory(conversation, history) ==
    \E i \in 1..Len(history) : history[i] = conversation

\* C1: when the completion call fails inside get_smart_response, the chat
\* flow appends no record: the failing exchange is never in the persisted log.
FailedCompletionNotPersisted ==
    \A p \in Procs : loc[p].excepted = "completion" => ~Persisted(loc[p].conversation)

\* C3: two save_conversation calls that overlap, each having read the log
\* before the other wrote it, both return True and the persisted log then
\* holds the record of only one of them.
OverlappingSavesKeepOne ==
    \A p \in Procs, q \in Procs :
        (/\ p # q
         /\ pc[p] = "done" /\ pc[q] = "done"
         /\ loc[p].ret = TRUE /\ loc[q].ret = TRUE
         /\ ~InHistory(loc[p].conversation, loc[q].history)
         /\ ~InHistory(loc[q].conversation, loc[p].history))
            => /\ Persisted(loc[p].conversation) \/ Persisted(loc[q].conversation)
               /\ ~(Persisted(loc[p].conversation) /\ Persisted(loc[q].conversation))

\* both requests were answered, both saves returned True, the earlier record
\* is still in the log and only the second request's record was added to it
OneRecordLost ==
    /\ pc[1] = "done" /\ pc[2] = "done"
    /\ loc[1].status = 200 /\ loc[2].status = 200
    /\ loc[1].ret = TRUE /\ loc[2].ret = TRUE
    /\ histFile.kind = "list"
    /\ Len(histFile.items) = 2
    /\ histFile.items[1] = JsonDict(EarlierRecord)
    /\ Persisted(loc[2].conversation)
    /\ ~Persisted(loc[1].conversation)

-----------------------------------------------------------------------------
(* classify_message_domain, called on messages *)

\* the longest message, in words of ClassifyWords
MaxWords == 2

\* the words the messages are made of
ClassifyWords ==
    { <<"W","o","r","k">>,
      <<"w","o","r","k","o","u","t">>,
      <<"m","e","e","t","i","n","g","!">>,
      <<"h","o","m","e">>,
      <<"h","o","m","e","w","o","r","k">>,
      <<"h","o","w"," ","t","o">>,
      <<"l","e","a","r","n">>,
      <<"I">>,
      <<"m","o","n","e","y">>,
      <<"f","i","l","m">> }

\* test_memory_system's message, test_system.py:115
TestMessage ==
    <<"I"," ","h","a","v","e"," ","a"," ","m","e","e","t","i","n","g"," ","t","o","m",
      "o","r","r","o","w">>

\* four keywords of work and four of family, two of each followed by "!"
TiedMessage ==
    <<"w","o","r","k","!"," ","j","o","b","!"," ","m","e","e","t","i","n","g"," ","d",
      "e","a","d","l","i","n","e"," ","f","a","m","i","l","y"," ","k","i","d","s"," ",
      "c","h","i","l","d","r","e","n","!"," ","s","p","o","u","s","e","!">>

\* the messages of at most n words, one space between two words
RECURSIVE MessagesOf(_)
MessagesOf(n) ==
    IF n = 0 THEN { <<>> }
    ELSE MessagesOf(n - 1)
         \cup { IF m = <<>> THEN w ELSE m \o <<" ">> \o w :
                  m \in MessagesOf(n - 1), w \in ClassifyWords }

\* the messages classified
ClassifyMessages == MessagesOf(MaxWords) \cup {TestMessage, TiedMessage, <<" ">>}

\* the amounts added to score for the keywords of a domain, in their order
Addends(message, domain) ==
    [i \in 1..Len(domain_keywords[domain]) |->
        KeywordScore(Lower(message), domain_keywords[domain][i])]

\* a caller classifies its message, and classifies it once more
CallClassify ==
    /\ pc[1] \in {"classify", "classified"}
    /\ pc' = [pc EXCEPT ![1] = IF pc[1] = "classify" THEN "classified" ELSE "done"]
    /\ LET message == loc[1].message
           label   == classify_message_domain(message)
       IN  out' = [NoOutput EXCEPT
                     !.op = "classify",
                     !.query = message,
                     !.val = [label   |-> label,
                              before  |-> IF pc[1] = "classify" THEN label
                                          ELSE out.val.label,
                              scores  |-> [d \in DOMAIN domain_keywords |->
                                             DomainScore(message, d)],
                              addends |-> [d \in DOMAIN domain_keywords |->
                                             Addends(message, d)]]]
    /\ UNCHANGED <<histFile, profFile, now, loc>>

InitClassify ==
    /\ histFile = Absent
    /\ profFile = Absent
    /\ now = 1
    /\ pc = [p \in Procs |-> IF p = 1 THEN "classify" ELSE "off"]
    /\ \E message \in ClassifyMessages :
          loc = [p \in Procs |-> IF p = 1 THEN [NoLocals EXCEPT !.message = message]
                                 ELSE NoLocals]
    /\ out = NoOutput

NextClassify == CallClassify

SpecClassify == InitClassify /\ [][NextClassify]_vars

\* the seven labels
Labels == {"work", "family", "entertainment", "health", "learning", "finance", "general"}

WholeWordIn(text, keyword) ==
    \E k \in 1..(Len(text) - Len(keyword) + 1) :
        LET last == k + Len(keyword) - 1
        IN  /\ SubSeq(text, k, last) = keyword
            /\ (k = 1 \/ text[k - 1] = " ")
            /\ (last = Len(text) \/ text[last + 1] = " ")

\* the keywords of a domain that stand in the text as whole words, and those
\* that only occur inside it
WholeKeywords(text, domain) ==
    { i \in 1..Len(domain_keywords[domain]) :
        WholeWordIn(text, domain_keywords[domain][i]) }

PartKeywords(text, domain) ==
    { i \in 1..Len(domain_keywords[domain]) :
        /\ Occurrences(text, domain_keywords[domain][i]) >= 1
        /\ ~WholeWordIn(text, domain_keywords[domain][i]) }

\* C15: each keyword adds exactly one of three amounts to its domain's
\* score: 1.0 when it stands in the lower-cased message as a whole word
\* between spaces, 0.7 when it only occurs as a substring, 0 when absent;
\* never both amounts, and nothing more for repeated occurrences.
KeywordAddsOneAmount ==
    out.op = "classify" =>
        \A d \in DOMAIN domain_keywords :
            LET text == Lower(out.query)
            IN  /\ \A i \in 1..Len(domain_keywords[d]) :
                      out.val.addends[d][i]
                        = IF i \in WholeKeywords(text, d) THEN Weight
                          ELSE IF i \in PartKeywords(text, d) THEN PartialWeight
                          ELSE FloatZero
                /\ out.val.scores[d].n
                      = 10 * Cardinality(WholeKeywords(text, d))
                        + 7 * Cardinality(PartKeywords(text, d))

\* "Work workout" holds work twice, once as a whole word: work added 1.0
WholeAndInsideAddsOne ==
    /\ out.op = "classify"
    /\ out.query = <<"W","o","r","k"," ","w","o","r","k","o","u","t">>
    /\ Occurrences(Lower(out.query), <<"w","o","r","k">>) = 2
    /\ out.val.addends["work"][1] = Weight
    /\ out.val.scores["work"] = Weight

\* a domain's aggregate score, in tenths: 10 for each of its keywords that is
\* a whole word of the message and 7 for each that only occurs inside it
ExactTenths(message, domain) ==
    10 * Cardinality(WholeKeywords(Lower(message), domain))
    + 7 * Cardinality(PartKeywords(Lower(message), domain))

\* C16: classify_message_domain returns the domain of the highest aggregate
\* score when that score is above 0, the first in the order work, family,
\* entertainment, health, learning, finance among those that share it, and
\* general when every domain scores 0.
TopScoreWinsFirstOnTies ==
    out.op = "classify" =>
        LET top == CHOOSE t \in { ExactTenths(out.query, d) : d \in DOMAIN domain_keywords } :
                      \A d \in DOMAIN domain_keywords : ExactTenths(out.query, d) <= t
            first == CHOOSE i \in 1..Len(DomainOrder) :
                        /\ ExactTenths(out.query, DomainOrder[i]) = top
                        /\ \A j \in 1..(i - 1) :
                              ExactTenths(out.query, DomainOrder[j]) < top
        IN  out.val.label = IF top > 0 THEN DomainOrder[first] ELSE "general"

\* C17: a message whose keywords all belong to one domain, one of them a
\* whole word, is given that domain's label; "I have a meeting tomorrow",
\* whose only keyword is the whole word meeting, is work.
SingleWholeWordDecides ==
    out.op = "classify" =>
        /\ (out.query = TestMessage => out.val.label = "work")
        /\ \A d \in DOMAIN domain_keywords :
              (/\ WholeKeywords(Lower(out.query), d) # {}
               /\ \A e \in DOMAIN domain_keywords \ {d} :
                     /\ WholeKeywords(Lower(out.query), e) = {}
                     /\ PartKeywords(Lower(out.query), e) = {})
                 => out.val.label = d

\* the test's message was classified: meeting alone scored, 1.0 for work
MeetingIsWork ==
    /\ out.op = "classify"
    /\ out.query = TestMessage
    /\ WholeKeywords(Lower(out.query), "work") = {3}
    /\ \A d \in DOMAIN domain_keywords \ {"work"} : out.val.scores[d] = FloatZero
    /\ out.val.scores["work"] = Weight
    /\ out.val.label = "work"

-----------------------------------------------------------------------------
(* save_conversation, called with texts of every kind *)

\* how many calls are made
MaxCalls == 2

\* the texts passed as user_message and bot_response
SaveTexts ==
    { <<>>,
      <<" ">>,
      <<"h","i">>,
      <<" ","o","k","\n">> }

\* a record of an earlier version of the program: it has the two texts only
LegacyRecord == JsonDict([user |-> <<"o","l","d">>, assistant |-> <<"y","e","s">>])

\* a log at its capacity
FullLog ==
    [i \in 1..MaxHistory |->
        Conversation(TestUserMessage(i - 1), TestAssistantResponse(i - 1), "general", 0)]

\* the documents conversation_history.json may hold before the calls
SaveLogs ==
    { Absent, Garbage, Scalar,
      DumpHistory(<<EarlierRecord>>),
      JsonList(<<Scalar, JsonDict(EarlierRecord), LegacyRecord>>),
      JsonList(<<Scalar>> \o DumpHistory(FullLog).items) }

\* a caller calls save_conversation(user_message, bot_response, "general");
\* out keeps the document as it is when the call is made
SaveCall ==
    /\ pc[1] \in {"call", "done", "loaded"}
    /\ loc[1].i < MaxCalls
    /\ out' = [NoOutput EXCEPT !.op = "save", !.val = histFile]
    /\ \E user_message \in SaveTexts, bot_response \in SaveTexts :
          loc' = [loc EXCEPT ![1].caller = "direct",
                             ![1].user_message = user_message,
                             ![1].bot_response = bot_response,
                             ![1].domain = "general",
                             ![1].i = loc[1].i + 1]
    /\ pc' = [pc EXCEPT ![1] = "save"]
    /\ UNCHANGED <<histFile, profFile, now>>

\* the caller loads the log after the call, test_system.py:106-107
SaveLoadBack ==
    /\ pc[1] = "done"
    /\ pc' = [pc EXCEPT ![1] = "loaded"]
    /\ \E failed \in BOOLEAN :
          out' = [NoOutput EXCEPT !.op = "load",
                                  !.failed = failed,
                                  !.val = load_conversation_history(histFile, failed, now)]
    /\ UNCHANGED <<histFile, profFile, now, loc>>

InitSave ==
    /\ histFile \in SaveLogs
    /\ profFile = Absent
    /\ now = 2
    /\ pc = [p \in Procs |-> IF p = 1 THEN "call" ELSE "off"]
    /\ loc = [p \in Procs |-> NoLocals]
    /\ out = NoOutput

NextSave ==
    \/ SaveCall
    \/ SaveCheck(1)
    \/ SaveLoad(1, BOOLEAN)
    \/ SaveOpen(1)
    \/ SaveDump(1)
    \/ SaveLoadBack

SpecSave == InitSave /\ [][NextSave]_vars

\* C18: save_conversation called with an empty user text or an empty
\* assistant text returns failure at once: the log is not loaded, changed and
\* written back, and the persisted log is the same after the call as before.
EmptyTextSaveIsNoOp ==
    [][ (/\ pc[1] = "save"
         /\ (loc[1].user_message = <<>> \/ loc[1].bot_response = <<>>))
        => (/\ pc'[1] = "done"
            /\ loc'[1].ret = FALSE
            /\ histFile' = histFile) ]_vars

\* a call with an empty user text has returned failure and the log, holding
\* the record of an earlier call, is there
EmptyTextRefused ==
    /\ pc[1] = "done"
    /\ loc[1].user_message = <<>>
    /\ loc[1].bot_response # <<>>
    /\ loc[1].ret = FALSE
    /\ loc[1].i = MaxCalls
    /\ histFile.kind = "list"
    /\ Len(histFile.items) >= 1

\* C19: in every state reached by calls of save_conversation with any
\* strings, texts of white space included, every record of the persisted
\* log has a user text and an assistant text that are not empty.
PersistedTextsNonEmpty ==
    histFile.kind = "list" =>
        \A i \in 1..Len(histFile.items) :
            histFile.items[i].kind = "dict" =>
                /\ histFile.items[i].fields.user # <<>>
                /\ histFile.items[i].fields.assistant # <<>>

-----------------------------------------------------------------------------
(* More on the profile store *)

\* C21: load_user_profile returns None, and returns to its caller, both when
\* no profile is persisted and when the persisted document cannot be decoded
\* or is not a key/value record: the caller sees the same for a corrupt
\* profile as for none.
CorruptProfileLoadsAsNone ==
    [][ (/\ out' # out
         /\ out'.op = "load_profile"
         /\ profFile.kind # "dict")
        => (/\ out'.val = PyNone
            /\ pc' = pc
            /\ profFile' = profFile) ]_vars

\* a document that is no record was read without a failure and None returned
ScalarProfileLoadedAsNone ==
    /\ out.op = "load_profile"
    /\ ~out.failed
    /\ profFile = Scalar
    /\ out.val = PyNone

-----------------------------------------------------------------------------
(* The loop of appends, loaded back *)

-----------------------------------------------------------------------------
(* More on save_conversation *)

\* the last call returned success and the log was loaded next, the read not
\* failing
LoadedAfterSuccess ==
    /\ pc[1] = "loaded"
    /\ out.op = "load"
    /\ ~out.failed
    /\ loc[1].ret = TRUE
    /\ loc[1].user_message # <<>>
    /\ loc[1].bot_response # <<>>

\* r is the text u without the white space at its two ends
IsTrimmed(u, r) ==
    /\ r = <<>> \/ (~IsSpace(r[1]) /\ ~IsSpace(r[Len(r)]))
    /\ \E i \in 0..Len(u) :
          /\ i + Len(r) <= Len(u)
          /\ SubSeq(u, i + 1, i + Len(r)) = r
          /\ \A k \in (1..i) \cup ((i + Len(r) + 1)..Len(u)) : IsSpace(u[k])

-----------------------------------------------------------------------------
(* More on the chat request *)

\* the steps of a chat request, in the order of the code
ChatSteps ==
    <<"idle", "chat_relevant", "chat_recent", "chat_complete", "chat_classify",
      "save", "save_load", "save_open", "save_dump", "chat_reply", "done">>

\* the place of a step in ChatSteps
StepRank(step) == CHOOSE i \in 1..Len(ChatSteps) : ChatSteps[i] = step

\* how many items of the persisted log are the conversation
TimesPersisted(file, conversation) ==
    Cardinality({ i \in 1..Len(file.items) : file.items[i] = JsonDict(conversation) })

\* C24: within one chat request the steps happen in the order: query the log
\* for relevant and recent history, build the prompt and call the completion
\* endpoint, classify the message, append the exchange. A request only moves
\* forward through these steps; the history is read only in the first two,
\* the response set only before the classification, the domain only by the
\* classification, and the log written only by the append, after all of
\* them. The exchange is in the log at most once and never in the history
\* the request's prompt was built from.
ChatStepsInOrder ==
    [][\A p \in Procs :
          /\ pc'[p] # pc[p] => StepRank(pc'[p]) > StepRank(pc[p])
          /\ (loc'[p].relevant # loc[p].relevant \/ loc'[p].recent # loc[p].recent)
                => pc[p] \in {"chat_relevant", "chat_recent"}
          /\ (loc'[p].bot_response # loc[p].bot_response /\ pc[p] # "idle")
                => pc[p] \in {"chat_relevant", "chat_complete"}
          /\ (loc'[p].domain # loc[p].domain /\ pc[p] # "idle")
                => pc[p] = "chat_classify"
          /\ histFile' # histFile
                => \E q \in Procs : /\ pc[q] \in {"save_open", "save_dump"}
                                    /\ pc'[q] # pc[q]
          /\ TimesPersisted(histFile', loc'[p].conversation) <= 1
          /\ ~InHistory(loc'[p].conversation, loc'[p].relevant)
          /\ ~InHistory(loc'[p].conversation, loc'[p].recent)
      ]_vars

\* a request went through every step: its prompt had the earlier record as
\* recent history, the completion answered, and the exchange is in the log
ChatRequestCompleted ==
    \E p \in Procs :
        /\ pc[p] = "done"
        /\ loc[p].status = 200
        /\ loc[p].excepted = "no"
        /\ loc[p].ret = TRUE
        /\ loc[p].recent = <<EarlierRecord>>
        /\ TimesPersisted(histFile, loc[p].conversation) = 1

\* the pieces of the context that are lines of the relevant block
RelevantLinesOf(memory_context) ==
    SelectSeq(memory_context,
              LAMBDA piece : /\ Len(piece) >= 5
                             /\ SubSeq(piece, 1, 5) = <<"-", " ", "Y", "o", "u">>)

\* the pieces of the context that are lines of the recent block
RecentLinesOf(memory_context) ==
    SelectSeq(memory_context,
              LAMBDA piece : /\ Len(piece) >= 5
                             /\ SubSeq(piece, 1, 5) = <<"-", " ", "R", "e", "c">>)

\* C25: the memory context built by get_smart_response has at most 2 lines
\* in the relevant block, one per record of find_relevant_conversations(
\* message, 2) in ranked order, and exactly min(2, len(log)) lines in the
\* recent block, which are the last two records of the log in chronological
\* order; a block, header included, is omitted when its source is empty, and
\* the relevant block comes before the recent block.
MemoryContextLines ==
    [][\A p \in Procs :
          /\ (pc[p] = "chat_recent" /\ pc'[p] = "chat_complete") =>
                \E failed \in BOOLEAN :
                   LET log == load_conversation_history(histFile, failed, now)
                       last == LastSlice(loc'[p].recent, 2)
                       n == IF Len(log) < 2 THEN Len(log) ELSE 2
                   IN  /\ Len(last) = n
                       /\ \A j \in 1..n : last[j] = log[Len(log) - n + j]
          /\ (pc[p] = "chat_complete" /\ pc'[p] = "chat_classify") =>
                LET memory_context == loc'[p].memory_context
                    relevant == RelevantLinesOf(memory_context)
                    recent == RecentLinesOf(memory_context)
                    last == LastSlice(loc[p].recent, 2)
                IN  /\ Len(relevant) <= 2
                    /\ Len(relevant) = Len(loc[p].relevant)
                    /\ \A j \in 1..Len(relevant) :
                          relevant[j] = RelevantLine(loc[p].relevant[j])
                    /\ Len(recent) = Len(last)
                    /\ \A j \in 1..Len(recent) : recent[j] = RecentLine(last[j])
                    /\ Len(memory_context) =
                          Len(relevant) + Len(recent)
                          + (IF loc[p].relevant # <<>> THEN 1 ELSE 0)
                          + (IF loc[p].recent # <<>> THEN 1 ELSE 0)
                    /\ loc[p].relevant # <<>> =>
                          /\ memory_context[1] = RelevantHeader
                          /\ SubSeq(memory_context, 2, Len(relevant) + 1) = relevant
                    /\ loc[p].recent # <<>> =>
                          /\ memory_context[Len(memory_context) - Len(recent)] = RecentHeader
                          /\ SubSeq(memory_context, Len(memory_context) - Len(recent) + 1,
                                    Len(memory_context)) = recent
      ]_vars

\* a log of four records, three of them matching the message: the context
\* has two relevant lines and two recent lines, the long text cut at 40
ContextOfLongLog ==
    /\ pc[1] = "chat_classify"
    /\ Len(histFile.items) = 4
    /\ Len(loc[1].recent) = 3
    /\ Len(loc[1].relevant) = 2
    /\ Len(loc[1].memory_context) = 6
    /\ loc[1].memory_context[5] = RecentLine(CatLog[2])
    /\ loc[1].memory_context[6] = RecentLine(CatLog[3])
    /\ Len(loc[1].memory_context[5]) < Len(RelevantLine(CatLog[2]))

-----------------------------------------------------------------------------
(* What a save_conversation call does to the records already stored *)

\* a call of save_conversation returned True; out.val is the document as it
\* was when the call was made
SavedAfterSuccess ==
    /\ pc[1] = "done"
    /\ out.op = "save"
    /\ loc[1].ret = TRUE
    /\ Strip(loc[1].user_message) # <<>>
    /\ Strip(loc[1].bot_response) # <<>>

\* the items of a document, none when it is not a list
ItemsOf(file) == IF file.kind = "list" THEN file.items ELSE <<>>

\* the stored item has every field of the earlier item, with the same value
KeepsFields(item, earlier) ==
    /\ earlier.kind = "dict"
    /\ item.kind = "dict"
    /\ DOMAIN earlier.fields \subseteq DOMAIN item.fields
    /\ \A k \in DOMAIN earlier.fields : item.fields[k] = earlier.fields[k]

\* the stored item is the earlier item with nothing but timestamp, date or
\* domain added
KeepsFieldsAndFills(item, earlier, conversation, t) ==
    LET added == DOMAIN item.fields \ DOMAIN earlier.fields
    IN  /\ KeepsFields(item, earlier)
        /\ added \subseteq {"timestamp", "date", "domain"}
        /\ "timestamp" \in added =>
              /\ item.fields.timestamp >= conversation.timestamp
              /\ item.fields.timestamp <= t
        /\ "date" \in added => item.fields.date = DateOf(item.fields.timestamp)
        /\ "domain" \in added => item.fields.domain = "general"

\* the least of a non-empty set of numbers, 0 for the empty set
Least(S) == IF S = {} THEN 0 ELSE CHOOSE k \in S : \A m \in S : k <= m

\* whether a function of places has no 0 and goes up
GoesUp(place) ==
    /\ \A a \in DOMAIN place : place[a] # 0
    /\ \A a \in DOMAIN place : (a + 1) \in DOMAIN place => place[a] < place[a + 1]

\* whether the records of front are found, in their order, among the items
\* as they were; the records of a log differ from one another, so that a
\* record is found in one place at most
RetainedAsTheyWere(front, items) ==
    GoesUp([a \in 1..Len(front) |->
               Least({m \in 1..Len(items) : items[m] = front[a]})])

\* whether the records of front are found, in their order, among the items,
\* each with the fields it had
RetainedWithTheirFields(front, items, conversation, t) ==
    GoesUp([a \in 1..Len(front) |->
               Least({m \in 1..Len(items) :
                        KeepsFieldsAndFills(front[a], items[m], conversation, t)})])

\* C26 as stated: after a successful append every record that was in the log
\* and is retained is field-for-field unchanged and keeps its relative order,
\* and the new record is last.
RetainedRecordsUnchanged ==
    SavedAfterSuccess =>
        LET n == Len(histFile.items)
            front == SubSeq(histFile.items, 1, n - 1)
        IN  /\ histFile.kind = "list"
            /\ n >= 1
            /\ histFile.items[n] = JsonDict(loc[1].conversation)
            /\ RetainedAsTheyWere(front, ItemsOf(out.val))

\* C26, amended: after a successful append every record that was in the log
\* and is retained keeps every field it had, with the same value, and its
\* relative order, and the new record is last; the only fields a retained
\* record may have gained are timestamp, date and domain, which are filled
\* in (the time of the call, its date, "general") where they were missing.
RetainedRecordsKeepTheirFields ==
    SavedAfterSuccess =>
        LET n == Len(histFile.items)
            front == SubSeq(histFile.items, 1, n - 1)
        IN  /\ histFile.kind = "list"
            /\ n >= 1
            /\ histFile.items[n] = JsonDict(loc[1].conversation)
            /\ RetainedWithTheirFields(front, ItemsOf(out.val), loc[1].conversation, now)

\* a record without timestamp, date and domain was in the log: after the
\* append it is stored with the three fields, before the new record
LegacyRecordRewritten ==
    /\ SavedAfterSuccess
    /\ out.val.kind = "list"
    /\ Len(out.val.items) = 3
    /\ out.val.items[3] = LegacyRecord
    /\ Len(histFile.items) = 3
    /\ histFile.items[1] = JsonDict(EarlierRecord)
    /\ KeepsFields(histFile.items[2], LegacyRecord)
    /\ DOMAIN histFile.items[2].fields =
          {"user", "assistant", "timestamp", "date", "domain"}
    /\ histFile.items[3] = JsonDict(loc[1].conversation)

\* C27: when save_conversation returns False because the write raised after
\* the file was opened, the persisted log is the same as before the call
\* (out.val), so loading it gives what it gave before: no stored record is
\* lost.
FailedWriteKeepsLog ==
    [][(/\ pc[1] = "save_dump"
        /\ pc'[1] = "done"
        /\ out.op = "save"
        /\ loc'[1].ret = FALSE)
          => /\ histFile' = out.val
             /\ load_conversation_history(histFile', FALSE, now)
                   = load_conversation_history(out.val, FALSE, now)
      ]_vars

\* C28: for every profile that save_user_profile accepts (name, role and
\* communication_style non-empty, any other field possibly missing),
\* get_smart_response builds the system prompt and reaches the completion
\* call: the response is not the error text of a field missing from the
\* profile.
AcceptedProfileReachesCompletion ==
    \A p \in Procs :
        (/\ pc[p] \in {"chat_classify", "save", "chat_reply", "done"}
         /\ ~IsFalsy(loc[p].profile)
         /\ HasRequired(loc[p].profile))
            => /\ loc[p].excepted # "prompt"
               /\ loc[p].bot_response # ErrorText(KeyErrorMessage)

\* the items of a document that are records with both texts
RecordsOf(file) ==
    SelectSeq(ItemsOf(file),
              LAMBDA e : /\ e.kind = "dict"
                         /\ {"user", "assistant"} \subseteq DOMAIN e.fields)

\* C29: a successful save_conversation persists exactly the entries
\* load_conversation_history returned, then the new record, cut to the last
\* 100. What is written is the list the call holds (loc[1].history); its
\* last item is the new record; the items before it are the records with
\* both texts of the document as it was, the oldest cut off beyond 99, each
\* with the fields it had (or none of them, when reading the document
\* raised); nothing else is in the log, and a document that was undecodable
\* or not a list is replaced by a log of exactly the new record.
SavePersistsLoadedThenNew ==
    SavedAfterSuccess =>
        LET n == Len(histFile.items)
            front == SubSeq(histFile.items, 1, n - 1)
            records == RecordsOf(out.val)
            kept == IF Len(records) < MaxHistory THEN Len(records) ELSE MaxHistory - 1
        IN  /\ histFile.kind = "list"
            /\ n >= 1
            /\ n <= MaxHistory
            /\ n = Len(loc[1].history)
            /\ \A i \in 1..n : histFile.items[i] = JsonDict(loc[1].history[i])
            /\ histFile.items[n] = JsonDict(loc[1].conversation)
            /\ RecordsOf(histFile) = histFile.items
            /\ \/ front = <<>>
               \/ /\ Len(front) = kept
                  /\ \A i \in 1..kept :
                        KeepsFieldsAndFills(front[i], records[Len(records) - kept + i],
                                            loc[1].conversation, now)
            /\ out.val.kind # "list" => n = 1

\* the document held an item that is no record and 100 records: after the
\* append the item is gone, the oldest record is cut off and the new record
\* is the last of 100
InvalidDroppedAndLogCut ==
    /\ SavedAfterSuccess
    /\ out.val.kind = "list"
    /\ Len(out.val.items) = MaxHistory + 1
    /\ out.val.items[1] = Scalar
    /\ Len(histFile.items) = MaxHistory
    /\ histFile.items[1] = JsonDict(FullLog[2])
    /\ histFile.items[MaxHistory - 1] = JsonDict(FullLog[MaxHistory])
    /\ histFile.items[MaxHistory] = JsonDict(loc[1].conversation)

-----------------------------------------------------------------------------
(* A request without a message *)

====
